---- MODULE Spec2Model ----
(***************************************************************************)
(* Model of the Grove analog air-quality sensor driver                     *)
(* (src/src/grove_analog_aqs.c).  The driver keeps one process-global      *)
(* device record `sensor`; its five entry points run to completion, so     *)
(* each is one action.  The platform (GPIO, ADC one-shot unit, ADC         *)
(* calibration scheme) is a fake collaborator `hw` that hands out handles, *)
(* tracks which of them are live, and may fail any call.                   *)
(***************************************************************************)
EXTENDS Integers, Sequences, FiniteSets, TLC

\* ------------------------------------------------------------------ bounds
\* The driver may create at most this many ADC units in one behaviour.
MaxUnits == 2

\* ------------------------------------------------------- program constants
GPIO_NUM_NC == -1
ADC_FULL_SCALE == 4095
GROVE_AQS_QUALITY_FRESH == 0
GROVE_AQS_QUALITY_GOOD == 1
GROVE_AQS_QUALITY_MODERATE == 2
GROVE_AQS_QUALITY_POOR == 3
GROVE_AQS_QUALITY_VERY_POOR == 4

ESP_OK == "ESP_OK"
ESP_ERR_INVALID_ARG == "ESP_ERR_INVALID_ARG"
ESP_ERR_INVALID_STATE == "ESP_ERR_INVALID_STATE"
ESP_ERR_NOT_SUPPORTED == "ESP_ERR_NOT_SUPPORTED"

\* A field of the caller's grove_aqs_data_t the driver has not written.
UNSET == -1

\* ------------------------------------------------------------ configuration
\* grove_aqs_config_t values a caller passes.  Pointer 0 is NULL.
ConfigTable ==
  << [adc_unit_num |-> 0, vref |-> 3300,
      fresh_threshold |-> 700, good_threshold |-> 1000,
      moderate_threshold |-> 1500, poor_threshold |-> 2000,
      use_gpio_power |-> FALSE, power_gpio |-> GPIO_NUM_NC],
     [adc_unit_num |-> 0, vref |-> 3300,
      fresh_threshold |-> 700, good_threshold |-> 1000,
      moderate_threshold |-> 1500, poor_threshold |-> 2000,
      use_gpio_power |-> TRUE, power_gpio |-> 5],
     [adc_unit_num |-> 1, vref |-> 1100,
      fresh_threshold |-> 300, good_threshold |-> 200,
      moderate_threshold |-> 700, poor_threshold |-> 701,
      use_gpio_power |-> TRUE, power_gpio |-> GPIO_NUM_NC] >>

ConfigPtrs == 0..Len(ConfigTable)

\* The zero-initialised configuration of `static grove_aqs_dev_t sensor = {0}`.
ZeroConfig ==
  [adc_unit_num |-> 0, vref |-> 0,
   fresh_threshold |-> 0, good_threshold |-> 0,
   moderate_threshold |-> 0, poor_threshold |-> 0,
   use_gpio_power |-> FALSE, power_gpio |-> 0]

\* Raw readings the ADC fake may deliver and millivolt values the
\* calibration fake may deliver.
RawValues == {868, 900, 4095}
MvValues == {700, 701, 2001}

\* ------------------------------------------------------ collaborator sites
\* Every place where the driver calls the platform.
DeinitSites == {"deinit.set_level", "deinit.cali_delete", "deinit.del_unit"}
InitSites == DeinitSites \cup
  {"init.gpio_config", "init.set_level", "init.new_unit",
   "init.config_channel", "init.del_unit", "init.cali_create"}
ReadSites == {"read.adc_read", "read.cali_convert"}
PowerOnSites == {"power_on.set_level"}
PowerOffSites == {"power_off.set_level"}

\* The error a failing platform call returns, one distinct code per platform
\* function so that propagation can be told apart.
FailCode(site) ==
  CASE site \in {"init.gpio_config"} -> "ESP_FAIL"
    [] site \in {"init.set_level", "deinit.set_level",
                 "power_on.set_level", "power_off.set_level"}
         -> "ESP_ERR_INVALID_RESPONSE"
    [] site \in {"init.new_unit"} -> "ESP_ERR_NO_MEM"
    [] site \in {"init.config_channel"} -> "ESP_ERR_INVALID_SIZE"
    [] site \in {"init.del_unit", "deinit.del_unit"} -> "ESP_ERR_NOT_FOUND"
    [] site \in {"init.cali_create"} -> "ESP_ERR_INVALID_VERSION"
    [] site \in {"deinit.cali_delete"} -> "ESP_ERR_INVALID_CRC"
    [] site \in {"read.adc_read"} -> "ESP_ERR_TIMEOUT"
    [] site \in {"read.cali_convert"} -> "ESP_ERR_INVALID_MAC"

\* F is the set of sites that fail in the current entry-point call.
Res(F, site) == IF site \in F THEN FailCode(site) ELSE ESP_OK

\* ------------------------------------------------------------------- state
VARIABLES
  sensor,   \* static grove_aqs_dev_t sensor
  hw,       \* the fake platform: live handles, counters, pin level
  last,     \* the most recent entry-point call: arguments, result, platform calls
  hist      \* history of earlier calls

vars == <<sensor, hw, last, hist>>

Sensor0 ==
  [config |-> ZeroConfig, initialized |-> FALSE, adc_handle |-> 0,
   adc_cali_handle |-> 0, do_calibration |-> FALSE, adc_unit |-> 0]

Hw0 ==
  [adcLive |-> {}, adcCreated |-> 0, adcDeleted |-> 0, adcBadDelete |-> FALSE,
   adcStaleUse |-> FALSE,
   caliLive |-> {}, caliCreated |-> 0, caliDeleted |-> 0, caliBadDelete |-> FALSE,
   gpioOutput |-> FALSE, gpioLevel |-> 0]

\* A running entry point: device record, platform, and the platform calls made.
Start(s, h) == [s |-> s, h |-> h, calls |-> <<>>]

\* arg is the handle or level passed in, out the value delivered through an
\* out-pointer (0 when there is none or the call failed).
Log(st, site, arg, out, ret) ==
  [st EXCEPT !.calls =
     Append(@, [site |-> site, arg |-> arg, out |-> out, ret |-> ret])]

\* ------------------------------------------------------- the fake platform
gpio_config(st, site, F) ==
  LET ret == Res(F, site) IN
  [st |-> Log([st EXCEPT !.h.gpioOutput = IF ret = ESP_OK THEN TRUE ELSE @],
              site, 0, 0, ret),
   ret |-> ret]

gpio_set_level(st, site, level, F) ==
  LET ret == Res(F, site) IN
  [st |-> Log([st EXCEPT !.h.gpioLevel = IF ret = ESP_OK THEN level ELSE @],
              site, level, 0, ret),
   ret |-> ret]

\* On success a fresh handle is stored through the out-pointer; on failure
\* the out-pointer is not written.
adc_oneshot_new_unit(st, site, F) ==
  LET ret == Res(F, site)
      hnd == st.h.adcCreated + 1 IN
  IF ret = ESP_OK
  THEN [st |-> Log([st EXCEPT !.h.adcLive = @ \cup {hnd},
                              !.h.adcCreated = hnd,
                              !.s.adc_handle = hnd], site, 0, hnd, ret),
        ret |-> ret]
  ELSE [st |-> Log(st, site, 0, 0, ret), ret |-> ret]

adc_oneshot_config_channel(st, site, handle, F) ==
  LET ret == Res(F, site) IN
  [st |-> Log([st EXCEPT !.h.adcStaleUse = @ \/ handle \notin st.h.adcLive],
              site, handle, 0, ret),
   ret |-> ret]

\* A successful delete releases the handle; deleting a handle that is not
\* live is recorded.  A failing delete releases nothing.
adc_oneshot_del_unit(st, site, handle, F) ==
  LET ret == Res(F, site) IN
  IF ret = ESP_OK
  THEN [st |-> Log([st EXCEPT !.h.adcLive = @ \ {handle},
                              !.h.adcDeleted = @ + 1,
                              !.h.adcBadDelete = @ \/ handle \notin st.h.adcLive],
                   site, handle, 0, ret),
        ret |-> ret]
  ELSE [st |-> Log(st, site, handle, 0, ret), ret |-> ret]

adc_cali_create_scheme_curve_fitting(st, site, F) ==
  LET ret == Res(F, site)
      hnd == st.h.caliCreated + 1 IN
  IF ret = ESP_OK
  THEN [st |-> Log([st EXCEPT !.h.caliLive = @ \cup {hnd},
                              !.h.caliCreated = hnd,
                              !.s.adc_cali_handle = hnd], site, 0, hnd, ret),
        ret |-> ret]
  ELSE [st |-> Log(st, site, 0, 0, ret), ret |-> ret]

adc_cali_delete_scheme_curve_fitting(st, site, handle, F) ==
  LET ret == Res(F, site) IN
  IF ret = ESP_OK
  THEN [st |-> Log([st EXCEPT !.h.caliLive = @ \ {handle},
                              !.h.caliDeleted = @ + 1,
                              !.h.caliBadDelete = @ \/ handle \notin st.h.caliLive],
                   site, handle, 0, ret),
        ret |-> ret]
  ELSE [st |-> Log(st, site, handle, 0, ret), ret |-> ret]

\* raw is the reading the unit delivers when the read succeeds.
adc_oneshot_read(st, site, handle, raw, F) ==
  LET ret == Res(F, site) IN
  [st |-> Log([st EXCEPT !.h.adcStaleUse = @ \/ handle \notin st.h.adcLive],
              site, handle, IF ret = ESP_OK THEN raw ELSE 0, ret),
   ret |-> ret]

\* mv is the voltage the calibration scheme delivers when it succeeds.
adc_cali_raw_to_voltage(st, site, handle, mv, F) ==
  LET ret == Res(F, site) IN
  [st |-> Log(st, site, handle, IF ret = ESP_OK THEN mv ELSE 0, ret),
   ret |-> ret]

\* ----------------------------------------------------------- the driver
PowerControl(cfg) == cfg.use_gpio_power /\ cfg.power_gpio # GPIO_NUM_NC

grove_aqs_power_on(st, site, F) ==
  IF ~st.s.config.use_gpio_power \/ st.s.config.power_gpio = GPIO_NUM_NC
  THEN [st |-> st, ret |-> ESP_ERR_NOT_SUPPORTED]
  ELSE gpio_set_level(st, site, 1, F)

grove_aqs_power_off(st, site, F) ==
  IF ~st.s.config.use_gpio_power \/ st.s.config.power_gpio = GPIO_NUM_NC
  THEN [st |-> st, ret |-> ESP_ERR_NOT_SUPPORTED]
  ELSE gpio_set_level(st, site, 0, F)

\* Variant: the device is marked uninitialised before the unit is released.
grove_aqs_deinit_markFirst(st, F) ==
  IF ~st.s.initialized
  THEN [st |-> st, ret |-> ESP_ERR_INVALID_STATE]
  ELSE
    LET st1 == IF PowerControl(st.s.config)
               THEN grove_aqs_power_off(st, "deinit.set_level", F).st
               ELSE st
        st2 == IF st1.s.do_calibration
               THEN [adc_cali_delete_scheme_curve_fitting(
                        st1, "deinit.cali_delete", st1.s.adc_cali_handle, F).st
                     EXCEPT !.s.do_calibration = FALSE]
               ELSE st1
        r3 == adc_oneshot_del_unit(st2, "deinit.del_unit", st2.s.adc_handle, F)
    IN [st |-> [r3.st EXCEPT !.s.initialized = FALSE], ret |-> r3.ret]

grove_aqs_deinit(st, F) ==
  IF ~st.s.initialized
  THEN [st |-> st, ret |-> ESP_ERR_INVALID_STATE]
  ELSE
    LET st1 == IF PowerControl(st.s.config)
               THEN grove_aqs_power_off(st, "deinit.set_level", F).st
               ELSE st
        st2 == IF st1.s.do_calibration
               THEN [adc_cali_delete_scheme_curve_fitting(
                        st1, "deinit.cali_delete", st1.s.adc_cali_handle, F).st
                     EXCEPT !.s.do_calibration = FALSE]
               ELSE st1
        r3 == adc_oneshot_del_unit(st2, "deinit.del_unit", st2.s.adc_handle, F)
    IN IF r3.ret # ESP_OK
       THEN r3
       ELSE [st |-> [r3.st EXCEPT !.s.initialized = FALSE], ret |-> ESP_OK]

InitCalibration(st, F) ==
  LET r == adc_cali_create_scheme_curve_fitting(st, "init.cali_create", F) IN
  [st |-> [r.st EXCEPT !.s.do_calibration = (r.ret = ESP_OK),
                       !.s.initialized = TRUE],
   ret |-> ESP_OK]

InitAdc(st, F) ==
  LET r1 == adc_oneshot_new_unit(st, "init.new_unit", F) IN
  IF r1.ret # ESP_OK THEN r1
  ELSE
    LET r2 == adc_oneshot_config_channel(r1.st, "init.config_channel",
                                         r1.st.s.adc_handle, F) IN
    IF r2.ret # ESP_OK
    THEN [st |-> adc_oneshot_del_unit(r2.st, "init.del_unit",
                                      r2.st.s.adc_handle, F).st,
          ret |-> r2.ret]
    ELSE InitCalibration(r2.st, F)

InitPower(st, F) ==
  IF PowerControl(st.s.config)
  THEN
    LET r1 == gpio_config(st, "init.gpio_config", F) IN
    IF r1.ret # ESP_OK THEN r1
    ELSE
      LET r2 == grove_aqs_power_on(r1.st, "init.set_level", F) IN
      IF r2.ret # ESP_OK THEN r2 ELSE InitAdc(r2.st, F)
  ELSE InitAdc(st, F)

\* Variant: an initialised device is not torn down before re-initialising.
grove_aqs_init_noTeardown(st, cfgp, F) ==
  IF cfgp = 0
  THEN [st |-> st, ret |-> ESP_ERR_INVALID_ARG]
  ELSE
    LET cfg == ConfigTable[cfgp]
        st2 == [st EXCEPT !.s.config = cfg,
                          !.s.adc_unit = IF cfg.adc_unit_num = 0 THEN 1 ELSE 2]
    IN InitPower(st2, F)

\* Variant: a failing implicit teardown aborts the new initialisation.
grove_aqs_init_teardownAborts(st, cfgp, F) ==
  IF cfgp = 0
  THEN [st |-> st, ret |-> ESP_ERR_INVALID_ARG]
  ELSE
    LET r1 == IF st.s.initialized THEN grove_aqs_deinit(st, F)
              ELSE [st |-> st, ret |-> ESP_OK]
        cfg == ConfigTable[cfgp]
        st2 == [r1.st EXCEPT !.s.config = cfg,
                             !.s.adc_unit = IF cfg.adc_unit_num = 0 THEN 1 ELSE 2]
    IN IF r1.ret # ESP_OK THEN r1 ELSE InitPower(st2, F)

grove_aqs_init(st, cfgp, F) ==
  IF cfgp = 0
  THEN [st |-> st, ret |-> ESP_ERR_INVALID_ARG]
  ELSE
    LET st1 == IF st.s.initialized THEN grove_aqs_deinit(st, F).st ELSE st
        cfg == ConfigTable[cfgp]
        st2 == [st1 EXCEPT !.s.config = cfg,
                           !.s.adc_unit = IF cfg.adc_unit_num = 0 THEN 1 ELSE 2]
    IN InitPower(st2, F)

\* C integer division truncates toward zero.
CDiv(a, b) ==
  IF (a >= 0) = (b > 0) THEN a \div b ELSE -((-a) \div b)

\* Variant: full scale taken as 4096.
LinearMillivolts_4096(raw, vref) == CDiv(raw * vref, ADC_FULL_SCALE + 1)

\* Variant: the division is done before the multiplication.
LinearMillivolts_divFirst(raw, vref) == CDiv(raw, ADC_FULL_SCALE) * vref

LinearMillivolts(raw, vref) == CDiv(raw * vref, ADC_FULL_SCALE)

\* Variant: exclusive upper bounds.
Classify_strict(mv, cfg) ==
  IF mv < cfg.fresh_threshold THEN GROVE_AQS_QUALITY_FRESH
  ELSE IF mv < cfg.good_threshold THEN GROVE_AQS_QUALITY_GOOD
  ELSE IF mv < cfg.moderate_threshold THEN GROVE_AQS_QUALITY_MODERATE
  ELSE IF mv < cfg.poor_threshold THEN GROVE_AQS_QUALITY_POOR
  ELSE GROVE_AQS_QUALITY_VERY_POOR

Classify(mv, cfg) ==
  IF mv <= cfg.fresh_threshold THEN GROVE_AQS_QUALITY_FRESH
  ELSE IF mv <= cfg.good_threshold THEN GROVE_AQS_QUALITY_GOOD
  ELSE IF mv <= cfg.moderate_threshold THEN GROVE_AQS_QUALITY_MODERATE
  ELSE IF mv <= cfg.poor_threshold THEN GROVE_AQS_QUALITY_POOR
  ELSE GROVE_AQS_QUALITY_VERY_POOR

NoData == [raw_value |-> UNSET, voltage_mv |-> UNSET, quality |-> UNSET]

\* Variant: the argument check is made before the state check.
grove_aqs_read_data_argFirst(st, dataNull, raw, caliMv, F) ==
  IF dataNull
  THEN [st |-> st, ret |-> ESP_ERR_INVALID_ARG, data |-> NoData]
  ELSE IF ~st.s.initialized
  THEN [st |-> st, ret |-> ESP_ERR_INVALID_STATE, data |-> NoData]
  ELSE
    LET r1 == adc_oneshot_read(st, "read.adc_read", st.s.adc_handle, raw, F) IN
    IF r1.ret # ESP_OK
    THEN [st |-> r1.st, ret |-> r1.ret, data |-> NoData]
    ELSE
      LET mv == IF r1.st.s.do_calibration THEN caliMv
                ELSE LinearMillivolts(raw, r1.st.s.config.vref) IN
      [st |-> r1.st, ret |-> ESP_OK,
       data |-> [raw_value |-> raw, voltage_mv |-> mv,
                 quality |-> Classify(mv, r1.st.s.config)]]

\* dataNull: the caller passed data == NULL.  raw and caliMv are the values
\* the ADC fake and the calibration fake deliver if they are asked.
grove_aqs_read_data(st, dataNull, raw, caliMv, F) ==
  IF ~st.s.initialized
  THEN [st |-> st, ret |-> ESP_ERR_INVALID_STATE, data |-> NoData]
  ELSE IF dataNull
  THEN [st |-> st, ret |-> ESP_ERR_INVALID_ARG, data |-> NoData]
  ELSE
    LET r1 == adc_oneshot_read(st, "read.adc_read", st.s.adc_handle, raw, F) IN
    IF r1.ret # ESP_OK
    THEN [st |-> r1.st, ret |-> r1.ret, data |-> NoData]
    ELSE
      LET d1 == [NoData EXCEPT !.raw_value = raw] IN
      IF r1.st.s.do_calibration
      THEN
        LET r2 == adc_cali_raw_to_voltage(r1.st, "read.cali_convert",
                                          r1.st.s.adc_cali_handle, caliMv, F) IN
        IF r2.ret # ESP_OK
        THEN [st |-> r2.st, ret |-> r2.ret, data |-> d1]
        ELSE [st |-> r2.st, ret |-> ESP_OK,
              data |-> [d1 EXCEPT !.voltage_mv = caliMv,
                                  !.quality = Classify(caliMv, r2.st.s.config)]]
      ELSE
        LET mv == LinearMillivolts(raw, r1.st.s.config.vref) IN
        [st |-> r1.st, ret |-> ESP_OK,
         data |-> [d1 EXCEPT !.voltage_mv = mv,
                             !.quality = Classify(mv, r1.st.s.config)]]

\* --------------------------------------------------------------- history
Sites(calls) == {calls[i].site : i \in 1..Len(calls)}
Failed(calls) == {calls[i].site : i \in {j \in 1..Len(calls) : calls[j].ret # ESP_OK}}
CallAt(calls, site) == CHOOSE c \in {calls[i] : i \in 1..Len(calls)} : c.site = site

\* Sites whose failure is not merely about calibration.
CalibrationSites == {"init.cali_create", "deinit.cali_delete", "read.cali_convert"}

Last0 ==
  [op |-> "none", ret |-> ESP_OK, cfgp |-> 0, dataNull |-> FALSE,
   calls |-> <<>>, data |-> NoData]

Hist0 ==
  [prev |-> "other", faulted |-> FALSE, initCali |-> "none"]

\* Commit the outcome r of entry point op.
Finish(op, cfgp, dataNull, r, data) ==
  /\ sensor' = r.st.s
  /\ hw' = r.st.h
  /\ last' = [op |-> op, ret |-> r.ret, cfgp |-> cfgp, dataNull |-> dataNull,
              calls |-> r.st.calls, data |-> data]
  /\ hist' =
       [prev |-> IF last.op = "init" /\ last.ret = ESP_OK THEN "init_ok"
                 ELSE IF last.op = "deinit"
                         /\ last.ret \notin {ESP_OK, ESP_ERR_INVALID_STATE}
                      THEN "deinit_failed"
                 ELSE "other",
        faulted |-> hist.faulted \/ (Failed(r.st.calls) \ CalibrationSites) # {},
        initCali |->
          IF op = "init" /\ r.ret = ESP_OK
          THEN IF "init.cali_create" \in Failed(r.st.calls) THEN "failed" ELSE "ok"
          ELSE hist.initCali]

\* ---------------------------------------------------------------- actions
Init == sensor = Sensor0 /\ hw = Hw0 /\ last = Last0 /\ hist = Hist0

DoInit ==
  /\ hw.adcCreated < MaxUnits
  /\ \E cfgp \in ConfigPtrs :
     \E F \in SUBSET (Sites(grove_aqs_init(Start(sensor, hw), cfgp, {}).st.calls)
                      \cup {"init.del_unit"}) :
       LET r == grove_aqs_init(Start(sensor, hw), cfgp, F) IN
       /\ F \subseteq Sites(r.st.calls)
       /\ Finish("init", cfgp, FALSE, r, NoData)

DoDeinit ==
  \E F \in SUBSET DeinitSites :
    LET r == grove_aqs_deinit(Start(sensor, hw), F) IN
    /\ F \subseteq Sites(r.st.calls)
    /\ Finish("deinit", 0, FALSE, r, NoData)

DoRead ==
  \E dataNull \in BOOLEAN, raw \in RawValues, caliMv \in MvValues,
     F \in SUBSET ReadSites :
    LET r == grove_aqs_read_data(Start(sensor, hw), dataNull, raw, caliMv, F) IN
    /\ F \subseteq Sites(r.st.calls)
    /\ Finish("read", 0, dataNull, r, r.data)

DoPowerOn ==
  \E F \in SUBSET PowerOnSites :
    LET r == grove_aqs_power_on(Start(sensor, hw), "power_on.set_level", F) IN
    /\ F \subseteq Sites(r.st.calls)
    /\ Finish("power_on", 0, FALSE, r, NoData)

DoPowerOff ==
  \E F \in SUBSET PowerOffSites :
    LET r == grove_aqs_power_off(Start(sensor, hw), "power_off.set_level", F) IN
    /\ F \subseteq Sites(r.st.calls)
    /\ Finish("power_off", 0, FALSE, r, NoData)

Next == DoInit \/ DoDeinit \/ DoRead \/ DoPowerOn \/ DoPowerOff

Spec == Init /\ [][Next]_vars

\* ----------------------------------------------------------------- claims
Called(site) == site \in Sites(last.calls)
FailedAt(site) == site \in Failed(last.calls)

\* C1: initialize called right after a successful initialize (no deinitialize
\* in between), with a valid configuration and a platform whose ADC and GPIO
\* calls have not failed, succeeds, and unit creations minus unit deletions
\* is 1: exactly one analog-unit handle is live, the one the device holds.
C1_ReinitLeavesOneUnit ==
  (last.op = "init" /\ last.cfgp # 0 /\ hist.prev = "init_ok" /\ ~hist.faulted)
    => /\ last.ret = ESP_OK
       /\ hw.adcCreated - hw.adcDeleted = 1
       /\ hw.adcLive = {sensor.adc_handle}

C1_Witness ==
  /\ last.op = "init" /\ last.cfgp # 0 /\ hist.prev = "init_ok" /\ ~hist.faulted
  /\ last.ret = ESP_OK
  /\ hw.adcCreated = 2 /\ hw.adcDeleted = 1

\* C2: initialize on an already-initialized device tears the old instance
\* down first, and whatever the platform does (a failing unit release in that
\* teardown included) it returns what initialize returns for the same
\* configuration and the same platform outcomes on a never-initialized device.
C2_ReinitResultIgnoresPriorState ==
  (last.op = "init" /\ Called("deinit.del_unit"))
    => last.ret = grove_aqs_init(Start(Sensor0, Hw0), last.cfgp,
                                 Failed(last.calls)).ret

C2_Witness ==
  /\ last.op = "init" /\ FailedAt("deinit.del_unit")
  /\ last.ret = ESP_OK /\ sensor.initialized

\* C3: a deinitialize on an initialized device whose unit release fails
\* returns that error and leaves the device initialized; a deinitialize that
\* follows it is not rejected with InvalidState, and when its unit release
\* succeeds it returns success and marks the device uninitialized.  The device
\* goes from initialized to uninitialized only in a call whose teardown
\* released the stored unit handle successfully.
C3_Step ==
  /\ (last'.op = "deinit" /\ sensor.initialized)
       => /\ "deinit.del_unit" \in Sites(last'.calls)
          /\ last'.ret # ESP_ERR_INVALID_STATE
          /\ IF "deinit.del_unit" \in Failed(last'.calls)
             THEN /\ last'.ret = FailCode("deinit.del_unit")
                  /\ sensor'.initialized
             ELSE /\ last'.ret = ESP_OK
                  /\ ~sensor'.initialized
  /\ (last'.op = "deinit" /\ last.op = "deinit"
        /\ last.ret = FailCode("deinit.del_unit"))
       => sensor.initialized
  /\ (sensor.initialized /\ ~sensor'.initialized)
       => /\ "deinit.del_unit" \in Sites(last'.calls) \ Failed(last'.calls)
          /\ CallAt(last'.calls, "deinit.del_unit").arg = sensor.adc_handle

\* C3: every step of the driver satisfies C3_Step.
C3_FailedReleaseKeepsInitialized == [][C3_Step]_vars

C3_Witness ==
  /\ last.op = "deinit" /\ last.ret = ESP_OK /\ hist.prev = "deinit_failed"
  /\ ~sensor.initialized

\* C4: every unit handle and every calibration handle the driver acquires is
\* released exactly once: none is deleted twice, none is live while the
\* device is uninitialized, and while it is initialized the only live handles
\* are the ones stored in the device record.
C4_HandlesReleasedExactlyOnce ==
  /\ ~hw.adcBadDelete
  /\ ~hw.caliBadDelete
  /\ hw.adcLive \subseteq (IF sensor.initialized THEN {sensor.adc_handle} ELSE {})
  /\ hw.caliLive \subseteq (IF sensor.initialized /\ sensor.do_calibration
                            THEN {sensor.adc_cali_handle} ELSE {})

\* C5: on an uninitialized device read_sample (with or without an output
\* destination) and deinitialize return InvalidState, call nothing on the
\* platform and change neither the device record nor the platform.
C5_Step ==
  (~sensor.initialized /\ last'.op \in {"read", "deinit"})
    => /\ last'.ret = ESP_ERR_INVALID_STATE
       /\ last'.calls = <<>>
       /\ sensor' = sensor
       /\ hw' = hw

\* C5: every step of the driver satisfies C5_Step.
C5_UninitializedRejects == [][C5_Step]_vars

C5_Witness ==
  /\ last.op = "read" /\ last.dataNull /\ last.ret = ESP_ERR_INVALID_STATE
  /\ ~sensor.initialized /\ hw.adcDeleted > 0

StrictlyIncreasing(c) ==
  /\ c.fresh_threshold < c.good_threshold
  /\ c.good_threshold < c.moderate_threshold
  /\ c.moderate_threshold < c.poor_threshold

C7_ClassificationChain ==
  (last.op = "read" /\ last.ret = ESP_OK)
    => LET v == last.data.voltage_mv
           q == last.data.quality
           c == sensor.config
           aboveF == v > c.fresh_threshold
           aboveG == aboveF /\ v > c.good_threshold
           aboveM == aboveG /\ v > c.moderate_threshold
       IN /\ q \in 0..4
          /\ (q = GROVE_AQS_QUALITY_FRESH) = (v <= c.fresh_threshold)
          /\ (q = GROVE_AQS_QUALITY_GOOD) = (aboveF /\ v <= c.good_threshold)
          /\ (q = GROVE_AQS_QUALITY_MODERATE) = (aboveG /\ v <= c.moderate_threshold)
          /\ (q = GROVE_AQS_QUALITY_POOR) = (aboveM /\ v <= c.poor_threshold)
          /\ (q = GROVE_AQS_QUALITY_VERY_POOR) = (aboveM /\ v > c.poor_threshold)
          /\ StrictlyIncreasing(c) =>
               /\ v = c.fresh_threshold => q = GROVE_AQS_QUALITY_FRESH
               /\ v = c.fresh_threshold + 1 => q = GROVE_AQS_QUALITY_GOOD
               /\ \A w \in MvValues : w <= v => Classify(w, c) <= q

C7_Witness ==
  /\ last.op = "read" /\ last.ret = ESP_OK
  /\ StrictlyIncreasing(sensor.config)
  /\ last.data.voltage_mv = sensor.config.fresh_threshold + 1
  /\ last.data.quality = GROVE_AQS_QUALITY_GOOD

\* C8 as amended: with thresholds {700, 1000, 1500, 2000}, reference 3300 mV
\* and no calibration, raw 868 reads as 699 mV, Fresh, and raw 900 reads as
\* 725 mV, Good.
Scenario8 ==
  /\ last.op = "read" /\ last.ret = ESP_OK /\ ~Called("read.cali_convert")
  /\ sensor.config.vref = 3300
  /\ sensor.config.fresh_threshold = 700 /\ sensor.config.good_threshold = 1000
  /\ sensor.config.moderate_threshold = 1500
  /\ sensor.config.poor_threshold = 2000

\* C8 (amended): in that scenario raw 868 gives 699 mV, Fresh, and raw 900
\* gives 725 mV, Good.
C8_ScenarioAmended ==
  Scenario8 =>
    /\ last.data.raw_value = 868 =>
         /\ last.data.voltage_mv = 699
         /\ last.data.quality = GROVE_AQS_QUALITY_FRESH
    /\ last.data.raw_value = 900 =>
         /\ last.data.voltage_mv = 725
         /\ last.data.quality = GROVE_AQS_QUALITY_GOOD

C8_Witness ==
  /\ Scenario8 /\ last.data.raw_value = 900
  /\ last.data.voltage_mv = 725 /\ last.data.quality = GROVE_AQS_QUALITY_GOOD

\* C8 as stated: raw 868 reads as 699 mV, Fresh, and raw 900 reads as 724 mV,
\* Good.
C8_ScenarioAsStated ==
  Scenario8 =>
    /\ last.data.raw_value = 868 =>
         /\ last.data.voltage_mv = 699
         /\ last.data.quality = GROVE_AQS_QUALITY_FRESH
    /\ last.data.raw_value = 900 =>
         /\ last.data.voltage_mv = 724
         /\ last.data.quality = GROVE_AQS_QUALITY_GOOD

\* C9: initialize on an uninitialized device with power control and a valid
\* pin, in which unit creation or channel configuration fails.
Scenario9 ==
  /\ last.op = "init" /\ ~Called("deinit.del_unit")
  /\ Called("init.set_level")
  /\ FailedAt("init.new_unit") \/ FailedAt("init.config_channel")

CreatedByLast ==
  IF Called("init.new_unit") THEN {CallAt(last.calls, "init.new_unit").out} \ {0}
  ELSE {}

\* C9: such a call returns the error of the failing step, the device stays
\* uninitialized, no unit created by the call remains live, and the power pin
\* driven high earlier in the call stays high.
C9_FailedInitReleasesUnit ==
  Scenario9 =>
    /\ last.ret = IF FailedAt("init.new_unit") THEN FailCode("init.new_unit")
                  ELSE FailCode("init.config_channel")
    /\ ~sensor.initialized
    /\ hw.gpioLevel = 1
    /\ CreatedByLast \cap hw.adcLive = {}

\* C10: whenever the device is marked initialized, the unit handle it stores
\* is live (created and not deleted), so no read goes through a deleted
\* handle.
C10_InitializedHandleLive ==
  /\ sensor.initialized => sensor.adc_handle \in hw.adcLive
  /\ ~hw.adcStaleUse
====
